---- MODULE Spec2Model ----
(***************************************************************************)
(* Model of the PDF processing pipeline: validate_pdf (app/validators.py), *)
(* process_pdf, generate_output_text and process_all_pdfs (app/main.py).   *)
(*                                                                         *)
(* Python str values are TLA+ strings, lists are sequences, dicts are      *)
(* functions whose DOMAIN is the set of keys (so "key in d" is             *)
(* key \in DOMAIN d), and an ordered dict that is iterated is a sequence   *)
(* of <<key, value>> pairs.                                                *)
(***************************************************************************)
EXTENDS Integers, Sequences, FiniteSets, TLC

VARIABLES
    pc,                \* position of the running handler
    static_folder,     \* directory listing of STATIC_FOLDER, in os.listdir order
    pdf_files,         \* process_all_pdfs: result of glob.glob, discovery order
    idx,               \* process_all_pdfs: index of the file the for loop is at
    fs,                \* what the filesystem and the PDF libraries report for the current path
    validation_result, \* process_pdf: result of validate_pdf
    results,           \* process_pdf / generate_output_text: the aggregate dict
    caught,            \* process_pdf: the exception bound by "except Exception as e", if any
    calls,             \* log of <<document index, callee>> for every call process_pdf makes
    output_text,       \* process_all_pdfs: generate_output_text(results)
    output,            \* contents of OUTPUT_FOLDER: output filename -> text written
    processed_files,   \* process_all_pdfs: the status list
    response,          \* what the handler returned (the jsonify argument)
    clock              \* number of datetime.now() calls made so far

vars == <<pc, static_folder, pdf_files, idx, fs, validation_result, results, caught, calls,
          output_text, output, processed_files, response, clock>>

--------------------------------------------------------------------------
(* Python string helpers *)

RECURSIVE Repeat(_, _)
\* s * n
Repeat(s, n) ==
    IF n = 0 THEN ""
    ELSE LET half == Repeat(s, n \div 2)
         IN half \o half \o (IF n % 2 = 1 THEN s ELSE "")

\* s[i] (1-based) as a one-character string
CharAt(s, i) == SubSeq(s, i, i)

\* s.endswith(suffix)
EndsWith(s, suffix) ==
    /\ Len(s) >= Len(suffix)
    /\ SubSeq(s, Len(s) - Len(suffix) + 1, Len(s)) = suffix

UpperLetters ==
    << "A", "B", "C", "D", "E", "F", "G", "H", "I", "J", "K", "L", "M",
       "N", "O", "P", "Q", "R", "S", "T", "U", "V", "W", "X", "Y", "Z" >>
LowerLetters ==
    << "a", "b", "c", "d", "e", "f", "g", "h", "i", "j", "k", "l", "m",
       "n", "o", "p", "q", "r", "s", "t", "u", "v", "w", "x", "y", "z" >>

\* the lower-case form of one character
LowerChar(c) ==
    IF \E k \in 1..Len(UpperLetters) : UpperLetters[k] = c
    THEN LowerLetters[CHOOSE k \in 1..Len(UpperLetters) : UpperLetters[k] = c]
    ELSE c

\* the upper-case form of one character
UpperChar(c) ==
    IF \E k \in 1..Len(LowerLetters) : LowerLetters[k] = c
    THEN UpperLetters[CHOOSE k \in 1..Len(LowerLetters) : LowerLetters[k] = c]
    ELSE c

IsLetter(c) ==
    \E k \in 1..Len(UpperLetters) : UpperLetters[k] = c \/ LowerLetters[k] = c

RECURSIVE Lower(_)
\* s.lower()
Lower(s) ==
    IF Len(s) = 0 THEN ""
    ELSE LowerChar(CharAt(s, 1)) \o Lower(SubSeq(s, 2, Len(s)))

RECURSIVE TitleFrom(_, _)
\* s.title(): a letter following a non-letter is upper-cased, any other letter lower-cased
TitleFrom(s, prevIsLetter) ==
    IF Len(s) = 0 THEN ""
    ELSE LET c == CharAt(s, 1) IN
         (IF prevIsLetter THEN LowerChar(c) ELSE UpperChar(c))
            \o TitleFrom(SubSeq(s, 2, Len(s)), IsLetter(c))

Title(s) == TitleFrom(s, FALSE)

\* the whitespace str.strip() removes
IsSpace(c) == c \in {" ", "\t", "\n", "\r", "\f"}

RECURSIVE LStrip(_)
LStrip(s) ==
    IF Len(s) > 0 /\ IsSpace(CharAt(s, 1)) THEN LStrip(SubSeq(s, 2, Len(s))) ELSE s

RECURSIVE RStrip(_)
RStrip(s) ==
    IF Len(s) > 0 /\ IsSpace(CharAt(s, Len(s)))
    THEN RStrip(SubSeq(s, 1, Len(s) - 1)) ELSE s

\* s.strip()
Strip(s) == RStrip(LStrip(s))

Digits == <<"0", "1", "2", "3", "4", "5", "6", "7", "8", "9">>

RECURSIVE Str(_)
\* str(n) of a non-negative int
Str(n) == IF n < 10 THEN Digits[n + 1] ELSE Str(n \div 10) \o Digits[(n % 10) + 1]

\* os.path.join(a, b)
PathJoin(a, b) == a \o "/" \o b

\* positions of the character c in s
Positions(s, c) == {k \in 1..Len(s) : CharAt(s, k) = c}

\* os.path.basename(p)
Basename(p) ==
    IF Positions(p, "/") = {} THEN p
    ELSE LET k == CHOOSE m \in Positions(p, "/") : \A n \in Positions(p, "/") : n <= m
         IN SubSeq(p, k + 1, Len(p))

\* os.path.splitext(p)[0]: cut at the last dot, unless only dots precede it
SplitextRoot(p) ==
    LET dots == Positions(p, ".") IN
    IF dots = {} THEN p
    ELSE LET k == CHOOSE m \in dots : \A n \in dots : n <= m IN
         IF \E j \in 1..(k - 1) : CharAt(p, j) # "." THEN SubSeq(p, 1, k - 1) ELSE p

--------------------------------------------------------------------------
(* validators.py *)

MiB == 1048576
max_size == 50 * MiB

\* f"{file_size / (1024*1024):.1f}": one decimal, round half to even
FormatMB(file_size) ==
    LET q == (file_size * 10) \div MiB
        r == (file_size * 10) % MiB
        tenths == IF 2 * r > MiB \/ (2 * r = MiB /\ q % 2 = 1) THEN q + 1 ELSE q
    IN Str(tenths \div 10) \o "." \o Str(tenths % 10)

\* what a check yields when it returns nothing and control falls through
Passed == [valid |-> TRUE]

\* the try block opening the file with PyPDF2 (lines 36-51): the dict it returns
OpenCheck(file_path, f) ==
    IF f.open_exc = "PdfReadError"
    THEN [valid |-> FALSE, error |-> "Corrupted PDF: " \o f.open_msg]
    ELSE IF f.open_exc # ""
    THEN [valid |-> FALSE, error |-> "PDF validation failed: " \o f.open_msg]
    ELSE IF f.num_pages = 0
    THEN [valid |-> FALSE, error |-> "PDF has no pages"]
    ELSE IF f.text_exc = "PdfReadError"
    THEN [valid |-> FALSE, error |-> "Corrupted PDF: " \o f.text_msg]
    ELSE IF f.text_exc # ""
    THEN [valid |-> FALSE, error |-> "PDF validation failed: " \o f.text_msg]
    ELSE Passed

\* the try block checking the file type (lines 26-33)
TypeCheck(file_path, f) ==
    IF ~f.magic_raises
    THEN IF f.mime # "application/pdf"
         THEN [valid |-> FALSE,
               error |-> "Invalid file type: " \o f.mime \o ". Expected PDF."]
         ELSE Passed
    ELSE IF ~EndsWith(Lower(file_path), ".pdf")
         THEN [valid |-> FALSE, error |-> "File does not have .pdf extension"]
         ELSE Passed

\* validate_pdf with the type check moved ahead of the size checks
validate_pdf_TypeFirst(file_path, f) ==
    IF ~f.exists
    THEN [valid |-> FALSE, error |-> "File does not exist"]
    ELSE IF ~TypeCheck(file_path, f).valid
    THEN TypeCheck(file_path, f)
    ELSE IF f.size_raises
    THEN [valid |-> FALSE, error |-> "Validation error: " \o f.size_msg]
    ELSE IF f.size = 0
    THEN [valid |-> FALSE, error |-> "File is empty"]
    ELSE IF f.size > max_size
    THEN [valid |-> FALSE,
          error |-> "File too large: " \o FormatMB(f.size) \o "MB (max: 50MB)"]
    ELSE IF ~OpenCheck(file_path, f).valid
    THEN OpenCheck(file_path, f)
    ELSE [valid |-> TRUE,
          file_size |-> f.size,
          num_pages |-> f.num_pages,
          has_text |-> Len(Strip(f.text)) > 0]

validate_pdf(file_path, f) ==
    IF ~f.exists
    THEN [valid |-> FALSE, error |-> "File does not exist"]
    ELSE IF f.size_raises
    THEN [valid |-> FALSE, error |-> "Validation error: " \o f.size_msg]
    ELSE IF f.size = 0
    THEN [valid |-> FALSE, error |-> "File is empty"]
    ELSE IF f.size > max_size
    THEN [valid |-> FALSE,
          error |-> "File too large: " \o FormatMB(f.size) \o "MB (max: 50MB)"]
    ELSE IF ~TypeCheck(file_path, f).valid
    THEN TypeCheck(file_path, f)
    ELSE IF ~OpenCheck(file_path, f).valid
    THEN OpenCheck(file_path, f)
    ELSE [valid |-> TRUE,
          file_size |-> f.size,
          num_pages |-> f.num_pages,
          has_text |-> Len(Strip(f.text)) > 0]

--------------------------------------------------------------------------
(* main.py: generate_output_text *)

PreviewLen == 200

\* d.get(key, 'Unknown') formatted into an f-string, for a str value
GetText(d, key) == IF key \in DOMAIN d THEN d[key] ELSE "Unknown"

\* d.get(key, 'Unknown') formatted into an f-string, for an int value
GetInt(d, key) == IF key \in DOMAIN d THEN Str(d[key]) ELSE "Unknown"

\* results.get(key) for a key whose absence yields None (falsy)
HasKey(d, key) == key \in DOMAIN d

RECURSIVE ConcatAll(_)
\* the lines of all blocks, in order
ConcatAll(blocks) ==
    IF Len(blocks) = 0 THEN << >> ELSE Head(blocks) \o ConcatAll(Tail(blocks))

RECURSIVE Join(_, _)
\* sep.join(lines)
Join(lines, sep) ==
    IF Len(lines) = 0 THEN ""
    ELSE IF Len(lines) = 1 THEN lines[1]
    ELSE lines[1] \o sep \o Join(Tail(lines), sep)

HeaderLines(r) ==
    << Repeat("=", 80),
       "PDF PROCESSING RESULTS: " \o r["filename"],
       "Processed at: " \o r["processed_at"],
       Repeat("=", 80),
       "" >>

\* MetadataLines with the header emitted whatever the mapping holds
MetadataLines_Unconditional(r) ==
    << "DOCUMENT METADATA:", Repeat("-", 40) >>
    \o ConcatAll([k \in 1..Len(r["metadata"]) |->
           LET key == r["metadata"][k][1]
               value == r["metadata"][k][2]
           IN IF value # "" THEN << Title(key) \o ": " \o value >> ELSE << >>])
    \o << "" >>

MetadataLines(r) ==
    IF HasKey(r, "metadata") /\ Len(r["metadata"]) > 0
    THEN << "DOCUMENT METADATA:", Repeat("-", 40) >>
         \o ConcatAll([k \in 1..Len(r["metadata"]) |->
                LET key == r["metadata"][k][1]
                    value == r["metadata"][k][2]
                IN IF value # "" THEN << Title(key) \o ": " \o value >> ELSE << >>])
         \o << "" >>
    ELSE << >>

StructureLines(r) ==
    IF HasKey(r, "structure") /\ DOMAIN r["structure"] # {}
    THEN LET structure == r["structure"] IN
         << "DOCUMENT STRUCTURE:", Repeat("-", 40),
            "Total Pages: " \o GetInt(structure, "total_pages") >>
         \o (IF "headings" \in DOMAIN structure
             THEN << "Headings Found:" >>
                  \o [k \in 1..Len(structure["headings"]) |->
                         "  - " \o structure["headings"][k]]
             ELSE << >>)
         \o << "" >>
    ELSE << >>

ImageBlock(i, img_info) ==
    << "Image " \o Str(i) \o ":",
       "  Page: " \o GetInt(img_info, "page"),
       "  Size: " \o GetText(img_info, "size"),
       "  Format: " \o GetText(img_info, "format") >>
    \o (IF "description" \in DOMAIN img_info /\ img_info["description"] # ""
        THEN << "  Description: " \o img_info["description"] >>
        ELSE << >>)

ImagesLines(r) ==
    IF HasKey(r, "images") /\ Len(r["images"]) > 0
    THEN << "EXTRACTED IMAGES:", Repeat("-", 40) >>
         \o ConcatAll([k \in 1..Len(r["images"]) |-> ImageBlock(k, r["images"][k])])
         \o << "" >>
    ELSE << >>

\* content[:200] + "..." if len(content) > 200 else content
Preview(content) ==
    IF Len(content) > PreviewLen THEN SubSeq(content, 1, PreviewLen) \o "..." ELSE content

TableBlock(i, table_info) ==
    << "Table " \o Str(i) \o ":",
       "  Page: " \o GetInt(table_info, "page"),
       "  Dimensions: " \o GetText(table_info, "shape"),
       "  Accuracy: " \o GetInt(table_info, "accuracy") \o "%" >>
    \o (IF "content" \in DOMAIN table_info
        THEN << "  Content Summary:", "    " \o Preview(table_info["content"]) >>
        ELSE << >>)

TablesLines(r) ==
    IF HasKey(r, "tables") /\ Len(r["tables"]) > 0
    THEN << "EXTRACTED TABLES:", Repeat("-", 40) >>
         \o ConcatAll([k \in 1..Len(r["tables"]) |-> TableBlock(k, r["tables"][k])])
         \o << "" >>
    ELSE << >>

TextLines(r) ==
    IF HasKey(r, "text_content") /\ r["text_content"] # ""
    THEN << "EXTRACTED TEXT CONTENT:", Repeat("-", 40), r["text_content"], "" >>
    ELSE << >>

\* OcrLines without the comparison against text_content
OcrLines_NoComparison(r) ==
    IF HasKey(r, "ocr_text") /\ r["ocr_text"] # ""
    THEN << "OCR EXTRACTED TEXT:", Repeat("-", 40), r["ocr_text"], "" >>
    ELSE << >>

OcrLines(r) ==
    IF /\ HasKey(r, "ocr_text") /\ r["ocr_text"] # ""
       /\ r["ocr_text"] # (IF HasKey(r, "text_content") THEN r["text_content"] ELSE "")
    THEN << "OCR EXTRACTED TEXT:", Repeat("-", 40), r["ocr_text"], "" >>
    ELSE << >>

SummaryLines(r) ==
    << "PROCESSING SUMMARY:", Repeat("-", 40),
       "Text Length: "
          \o Str(IF HasKey(r, "text_content") THEN Len(r["text_content"]) ELSE 0)
          \o " characters",
       "Images Found: " \o Str(IF HasKey(r, "images") THEN Len(r["images"]) ELSE 0),
       "Tables Found: " \o Str(IF HasKey(r, "tables") THEN Len(r["tables"]) ELSE 0),
       "OCR Length: "
          \o Str(IF HasKey(r, "ocr_text") THEN Len(r["ocr_text"]) ELSE 0)
          \o " characters" >>

generate_output_text(r) ==
    IF "error" \in DOMAIN r
    THEN Join(HeaderLines(r) \o << "ERROR: " \o r["error"] >>, "\n")
    ELSE Join(HeaderLines(r) \o MetadataLines(r) \o StructureLines(r)
              \o ImagesLines(r) \o TablesLines(r) \o TextLines(r)
              \o OcrLines(r) \o SummaryLines(r), "\n")

--------------------------------------------------------------------------
(* main.py: process_pdf *)

STATIC_FOLDER == "static"
OUTPUT_FOLDER == "output"

\* datetime.now().strftime(...) of the t-th reading of the clock
Now(t) == "T" \o Str(t)

\* d with d[key] = value assigned
SetKey(d, key, value) ==
    [k \in DOMAIN d \cup {key} |-> IF k = key THEN value ELSE d[k]]

\* the results dictionary as initialised at lines 31-40
InitialResults(filename, t) ==
    [filename |-> filename,
     processed_at |-> Now(t),
     text_content |-> "",
     structure |-> << >>,
     images |-> << >>,
     tables |-> << >>,
     metadata |-> << >>,
     ocr_text |-> ""]

\* the dict the except clause returns (lines 76-81)
FailureResults(filename, msg, t) ==
    [filename |-> filename,
     error |-> "Processing failed: " \o msg,
     processed_at |-> Now(t)]

\* the file the for loop of process_all_pdfs is at
pdf_file == pdf_files[idx]
filename == Basename(pdf_file)

\* an extractor's outcome: it raises, or it returns a value
Raised(msg) == [raises |-> TRUE, msg |-> msg]
Returned(value) == [raises |-> FALSE, value |-> value]

NoException == [raised |-> FALSE]

\* the except clause adding the error to the partly filled results
Except_KeepsPartial(msg) ==
    /\ caught' = [raised |-> TRUE, msg |-> msg]
    /\ results' = SetKey(results, "error", "Processing failed: " \o msg)
    /\ clock' = clock + 1
    /\ pc' = "generate"

\* except Exception as e (lines 76-81), reached from any extractor call
Except(msg) ==
    /\ caught' = [raised |-> TRUE, msg |-> msg]
    /\ results' = FailureResults(filename, msg, clock + 1)
    /\ clock' = clock + 1
    /\ pc' = "generate"

--------------------------------------------------------------------------
(* what the environment can produce *)

MaxFiles == 2

\* the names STATIC_FOLDER may hold, in the order os.listdir yields them
DirOrder == << "b.c.pdf", ".pdf", "a.pdf", "n.txt", "d.pdf" >>

\* the entries of DirOrder at the positions I, in order
Selected(I) ==
    LET nth(k) == CHOOSE p \in I : Cardinality({q \in I : q < p}) = k - 1
    IN [k \in 1..Cardinality(I) |-> DirOrder[nth(k)]]

\* the folders of at most MaxFiles entries
Listings ==
    {Selected(I) : I \in {J \in SUBSET (1..Len(DirOrder)) : Cardinality(J) <= MaxFiles}}

GoodFs ==
    [exists |-> TRUE, size_raises |-> FALSE, size_msg |-> "", size |-> 1024,
     magic_raises |-> FALSE, mime |-> "application/pdf",
     open_exc |-> "", open_msg |-> "", num_pages |-> 1,
     text_exc |-> "", text_msg |-> "", text |-> "Hi"]

\* files met in a batch run: a good one and one failing each kind of check
BatchFs ==
    {GoodFs,
     [GoodFs EXCEPT !.size = 0],
     [GoodFs EXCEPT !.mime = "text/plain"],
     [GoodFs EXCEPT !.num_pages = 0]}

TextOutcomes ==
    {Raised("text failed"),
     Returned(<< >>),
     Returned([text |-> "Hello", structure |-> [total_pages |-> 1]])}

ImagesOutcomes ==
    {Raised("images failed"),
     Returned(<< >>),
     Returned(<< [page |-> 1, size |-> "10x10", format |-> "png"] >>)}

TablesOutcomes ==
    {Raised("tables failed"),
     Returned(<< >>),
     Returned(<< [page |-> 1, shape |-> "2x2", accuracy |-> 99, content |-> "a b"] >>)}

MetadataOutcomes ==
    {Raised("metadata failed"),
     Returned(<< <<"title", "Report">> >>)}

OcrOutcomes ==
    {Raised("ocr failed"), Returned(""), Returned("Hello")}

\* open(output_path, 'w') / f.write: completes, fails at open, or fails in write
WriteOutcomes == {"ok", "open_fails", "write_fails"}

--------------------------------------------------------------------------
(* main.py: process_all_pdfs, one action per call it makes *)

\* glob.glob: '*' matches no leading dot
GlobMatches(name) == EndsWith(name, ".pdf") /\ CharAt(name, 1) # "."

RECURSIVE Glob(_)
Glob(listing) ==
    IF Len(listing) = 0 THEN << >>
    ELSE (IF GlobMatches(Head(listing))
          THEN << PathJoin(STATIC_FOLDER, Head(listing)) >> ELSE << >>)
         \o Glob(Tail(listing))

\* Discover without the test for an empty list: the loop runs zero times
Discover_NoEmptyCheck ==
    /\ pc = "glob"
    /\ pdf_files' = Glob(static_folder)
    /\ IF Len(pdf_files') = 0
       THEN /\ response' = response
            /\ pc' = "return"
            /\ idx' = idx
       ELSE /\ response' = response
            /\ pc' = "validate"
            /\ idx' = 1
    /\ UNCHANGED <<static_folder, fs, validation_result, results, caught, calls,
                   output_text, output, processed_files, clock>>

\* lines 217-222
Discover ==
    /\ pc = "glob"
    /\ pdf_files' = Glob(static_folder)
    /\ IF Len(pdf_files') = 0
       THEN /\ response' = [error |-> "No PDF files found in static folder"]
            /\ pc' = "done"
            /\ idx' = idx
       ELSE /\ response' = response
            /\ pc' = "validate"
            /\ idx' = 1
    /\ UNCHANGED <<static_folder, fs, validation_result, results, caught, calls,
                   output_text, output, processed_files, clock>>

\* Validate without the return on an invalid file
Validate_NoEarlyReturn ==
    /\ pc = "validate"
    /\ \E f \in BatchFs :
        /\ fs' = f
        /\ validation_result' = validate_pdf(pdf_file, f)
    /\ calls' = Append(calls, <<idx, "validate_pdf">>)
    /\ caught' = NoException
    /\ clock' = clock + 1
    /\ IF ~validation_result'.valid
       THEN /\ results' = SetKey(InitialResults(filename, clock + 1), "error",
                                 validation_result'.error)
            /\ pc' = "extract_text"
       ELSE /\ results' = InitialResults(filename, clock + 1)
            /\ pc' = "extract_text"
    /\ UNCHANGED <<static_folder, pdf_files, idx, output_text, output,
                   processed_files, response>>

\* Validate followed by the image step first
Validate_StartsAtImages ==
    /\ pc = "validate"
    /\ \E f \in BatchFs :
        /\ fs' = f
        /\ validation_result' = validate_pdf(pdf_file, f)
    /\ calls' = Append(calls, <<idx, "validate_pdf">>)
    /\ caught' = NoException
    /\ clock' = clock + 1
    /\ IF ~validation_result'.valid
       THEN /\ results' = SetKey(InitialResults(filename, clock + 1), "error",
                                 validation_result'.error)
            /\ pc' = "generate"
       ELSE /\ results' = InitialResults(filename, clock + 1)
            /\ pc' = "extract_images"
    /\ UNCHANGED <<static_folder, pdf_files, idx, output_text, output,
                   processed_files, response>>

\* process_pdf, lines 27-46
Validate ==
    /\ pc = "validate"
    /\ \E f \in BatchFs :
        /\ fs' = f
        /\ validation_result' = validate_pdf(pdf_file, f)
    /\ calls' = Append(calls, <<idx, "validate_pdf">>)
    /\ caught' = NoException
    /\ clock' = clock + 1
    /\ IF ~validation_result'.valid
       THEN /\ results' = SetKey(InitialResults(filename, clock + 1), "error",
                                 validation_result'.error)
            /\ pc' = "generate"
       ELSE /\ results' = InitialResults(filename, clock + 1)
            /\ pc' = "extract_text"
    /\ UNCHANGED <<static_folder, pdf_files, idx, output_text, output,
                   processed_files, response>>

\* process_pdf, lines 48-52
ExtractTextAndStructure ==
    /\ pc = "extract_text"
    /\ calls' = Append(calls, <<idx, "extract_text_and_structure">>)
    /\ \E o \in TextOutcomes :
        IF o.raises THEN Except(o.msg)
        ELSE LET text_data == o.value IN
             /\ results' =
                  SetKey(SetKey(results, "text_content",
                                IF "text" \in DOMAIN text_data
                                THEN text_data["text"] ELSE ""),
                         "structure",
                         IF "structure" \in DOMAIN text_data
                         THEN text_data["structure"] ELSE << >>)
             /\ pc' = "extract_images"
             /\ clock' = clock
             /\ caught' = caught
    /\ UNCHANGED <<static_folder, pdf_files, idx, fs, validation_result,
                   output_text, output, processed_files, response>>

\* ExtractImages continuing at the metadata step
ExtractImages_SkipsTables ==
    /\ pc = "extract_images"
    /\ calls' = Append(calls, <<idx, "extract_images">>)
    /\ \E o \in ImagesOutcomes :
        IF o.raises THEN Except(o.msg)
        ELSE /\ results' = SetKey(results, "images", o.value)
             /\ pc' = "extract_metadata"
             /\ clock' = clock
             /\ caught' = caught
    /\ UNCHANGED <<static_folder, pdf_files, idx, fs, validation_result,
                   output_text, output, processed_files, response>>

\* process_pdf, lines 54-57
ExtractImages ==
    /\ pc = "extract_images"
    /\ calls' = Append(calls, <<idx, "extract_images">>)
    /\ \E o \in ImagesOutcomes :
        IF o.raises THEN Except(o.msg)
        ELSE /\ results' = SetKey(results, "images", o.value)
             /\ pc' = "extract_tables"
             /\ clock' = clock
             /\ caught' = caught
    /\ UNCHANGED <<static_folder, pdf_files, idx, fs, validation_result,
                   output_text, output, processed_files, response>>

\* process_pdf, lines 59-62
ExtractTables ==
    /\ pc = "extract_tables"
    /\ calls' = Append(calls, <<idx, "extract_tables">>)
    /\ \E o \in TablesOutcomes :
        IF o.raises THEN Except(o.msg)
        ELSE /\ results' = SetKey(results, "tables", o.value)
             /\ pc' = "extract_metadata"
             /\ clock' = clock
             /\ caught' = caught
    /\ UNCHANGED <<static_folder, pdf_files, idx, fs, validation_result,
                   output_text, output, processed_files, response>>

\* process_pdf, lines 64-67
ExtractMetadata ==
    /\ pc = "extract_metadata"
    /\ calls' = Append(calls, <<idx, "extract_metadata">>)
    /\ \E o \in MetadataOutcomes :
        IF o.raises THEN Except(o.msg)
        ELSE /\ results' = SetKey(results, "metadata", o.value)
             /\ pc' = "perform_ocr"
             /\ clock' = clock
             /\ caught' = caught
    /\ UNCHANGED <<static_folder, pdf_files, idx, fs, validation_result,
                   output_text, output, processed_files, response>>

\* process_pdf, lines 69-74
PerformOcr ==
    /\ pc = "perform_ocr"
    /\ calls' = Append(calls, <<idx, "perform_ocr">>)
    /\ \E o \in OcrOutcomes :
        IF o.raises THEN Except(o.msg)
        ELSE /\ results' = SetKey(results, "ocr_text", o.value)
             /\ pc' = "generate"
             /\ clock' = clock
             /\ caught' = caught
    /\ UNCHANGED <<static_folder, pdf_files, idx, fs, validation_result,
                   output_text, output, processed_files, response>>

\* process_all_pdfs, line 231
GenerateOutput ==
    /\ pc = "generate"
    /\ output_text' = generate_output_text(results)
    /\ pc' = "save"
    /\ UNCHANGED <<static_folder, pdf_files, idx, fs, validation_result, results,
                   caught, calls, output, processed_files, response, clock>>

output_filename == SplitextRoot(filename) \o "_processed.txt"

\* StatusEntry with the test on error inverted
StatusEntry_Inverted(r, name, out_name) ==
    [input |-> name,
     output |-> out_name,
     status |-> IF "error" \in DOMAIN r THEN "success" ELSE "error"]

\* the entry appended at lines 240-244
StatusEntry(r, name, out_name) ==
    [input |-> name,
     output |-> out_name,
     status |-> IF "error" \notin DOMAIN r THEN "success" ELSE "error"]

\* SaveOutput recording a status entry only for a document without error
SaveOutput_SkipsFailed ==
    /\ pc = "save"
    /\ \E w \in WriteOutcomes :
        IF w = "ok"
        THEN /\ output' = SetKey(output, output_filename, output_text)
             /\ processed_files' =
                  IF "error" \in DOMAIN results THEN processed_files
                  ELSE Append(processed_files,
                              StatusEntry(results, filename, output_filename))
             /\ IF idx < Len(pdf_files)
                THEN idx' = idx + 1 /\ pc' = "validate"
                ELSE idx' = idx /\ pc' = "return"
        ELSE \* the exception leaves process_all_pdfs: no except clause encloses the write
             /\ output' = IF w = "write_fails"
                          THEN SetKey(output, output_filename, "") ELSE output
             /\ pc' = "aborted"
             /\ UNCHANGED <<processed_files, idx>>
    /\ UNCHANGED <<static_folder, pdf_files, fs, validation_result, results,
                   caught, calls, output_text, response, clock>>

\* process_all_pdfs, lines 233-244, and the loop's step to the next file
SaveOutput ==
    /\ pc = "save"
    /\ \E w \in WriteOutcomes :
        IF w = "ok"
        THEN /\ output' = SetKey(output, output_filename, output_text)
             /\ processed_files' =
                  Append(processed_files, StatusEntry(results, filename, output_filename))
             /\ IF idx < Len(pdf_files)
                THEN idx' = idx + 1 /\ pc' = "validate"
                ELSE idx' = idx /\ pc' = "return"
        ELSE \* the exception leaves process_all_pdfs: no except clause encloses the write
             /\ output' = IF w = "write_fails"
                          THEN SetKey(output, output_filename, "") ELSE output
             /\ pc' = "aborted"
             /\ UNCHANGED <<processed_files, idx>>
    /\ UNCHANGED <<static_folder, pdf_files, fs, validation_result, results,
                   caught, calls, output_text, response, clock>>

\* process_all_pdfs, lines 246-249
Return ==
    /\ pc = "return"
    /\ response' = [message |-> "Processed " \o Str(Len(processed_files)) \o " files",
                    files |-> processed_files]
    /\ pc' = "done"
    /\ UNCHANGED <<static_folder, pdf_files, idx, fs, validation_result, results,
                   caught, calls, output_text, output, processed_files, clock>>

NoResponse == [pending |-> TRUE]

Init ==
    /\ pc = "glob"
    /\ static_folder \in Listings
    /\ pdf_files = << >>
    /\ idx = 0
    /\ fs = GoodFs
    /\ validation_result = << >>
    /\ results = << >>
    /\ caught = NoException
    /\ calls = << >>
    /\ output_text = ""
    /\ output = << >>
    /\ processed_files = << >>
    /\ response = NoResponse
    /\ clock = 0

Next ==
    \/ Discover
    \/ Validate
    \/ ExtractTextAndStructure
    \/ ExtractImages
    \/ ExtractTables
    \/ ExtractMetadata
    \/ PerformOcr
    \/ GenerateOutput
    \/ SaveOutput
    \/ Return

Spec == Init /\ [][Next]_vars

--------------------------------------------------------------------------
(* validate_pdf on its own: every combination of what the checks can meet *)

MaxPages == 2

FsStates ==
    [exists : BOOLEAN,
     size_raises : BOOLEAN, size_msg : {"stat failed"},
     size : {0, 1024, max_size, max_size + 1, max_size + 262144},
     magic_raises : BOOLEAN, mime : {"application/pdf", "text/plain"},
     open_exc : {"", "PdfReadError", "OSError"}, open_msg : {"EOF marker not found"},
     num_pages : 0..MaxPages,
     text_exc : {"", "PdfReadError", "KeyError"}, text_msg : {"bad page"},
     text : {"", " \n", " Hi "}]

ValidatePaths == {"static/a.pdf", "static/A.PDF", "static/a.txt"}

InitValidate ==
    /\ pc = "v_call"
    /\ static_folder = << >>
    /\ pdf_files \in {<< q >> : q \in ValidatePaths}
    /\ idx = 1
    /\ fs \in FsStates
    /\ validation_result = << >>
    /\ results = << >>
    /\ caught = NoException
    /\ calls = << >>
    /\ output_text = ""
    /\ output = << >>
    /\ processed_files = << >>
    /\ response = NoResponse
    /\ clock = 0

\* validation_result = validate_pdf(pdf_path)
ValidateCall ==
    /\ pc = "v_call"
    /\ validation_result' = validate_pdf(pdf_file, fs)
    /\ pc' = "v_done"
    /\ UNCHANGED <<static_folder, pdf_files, idx, fs, results, caught, calls,
                   output_text, output, processed_files, response, clock>>

NextValidate == ValidateCall

SpecValidate == InitValidate /\ [][NextValidate]_vars

--------------------------------------------------------------------------
(* generate_output_text on its own: every aggregate process_pdf can return *)

LongContent == Repeat("x", PreviewLen + 1)

TextValues == {"", "Hello", "Hello\nWorld"}

StructureValues ==
    {<< >>,
     [total_pages |-> 1],
     [headings |-> << >>],
     [total_pages |-> 2, headings |-> <<"Intro", "End">>]}

ImagesValues ==
    {<< >>,
     << [page |-> 1, size |-> "10x10", format |-> "png"] >>,
     << [page |-> 2, description |-> "a chart"], [format |-> "jpeg", description |-> ""] >>}

TablesValues ==
    {<< >>,
     << [page |-> 1, shape |-> "2x2", accuracy |-> 99, content |-> "a b"] >>,
     << [page |-> 3], [shape |-> "1x1", accuracy |-> 80, content |-> LongContent] >>}

MetadataValues ==
    {<< >>,
     << <<"title", "Report">> >>,
     << <<"title", "">>, <<"author", "ada b">> >>}

OcrValues == {"", "Hello", "Scan"}

ErrorValues == {"File is empty", "PDF has no pages"}

Aggregates ==
    {[filename |-> "a.pdf", processed_at |-> Now(1), text_content |-> t,
      structure |-> st, images |-> im, tables |-> tb, metadata |-> md, ocr_text |-> oc] :
        t \in TextValues, st \in StructureValues, im \in ImagesValues,
        tb \in TablesValues, md \in MetadataValues, oc \in OcrValues}
    \cup {SetKey(InitialResults("a.pdf", 1), "error", er) : er \in ErrorValues}
    \cup {FailureResults("a.pdf", "ocr failed", 2)}

InitRender ==
    /\ pc = "r_call"
    /\ static_folder = << >>
    /\ pdf_files = << >>
    /\ idx = 0
    /\ fs = GoodFs
    /\ validation_result = << >>
    /\ results \in Aggregates
    /\ caught = NoException
    /\ calls = << >>
    /\ output_text = ""
    /\ output = << >>
    /\ processed_files = << >>
    /\ response = NoResponse
    /\ clock = 0

\* output_text = generate_output_text(results)
RenderCall ==
    /\ pc = "r_call"
    /\ output_text' = generate_output_text(results)
    /\ pc' = "r_done"
    /\ UNCHANGED <<static_folder, pdf_files, idx, fs, validation_result, results,
                   caught, calls, output, processed_files, response, clock>>

NextRender == RenderCall

SpecRender == InitRender /\ [][NextRender]_vars

--------------------------------------------------------------------------
(* reading a rendered report back *)

\* the positions that delimit the lines of text: before it, each newline, after it
Breaks(text) == Positions(text, "\n") \cup {0, Len(text) + 1}

\* the lines of text, as text.split("\n") gives them
Lines(text) ==
    LET B == Breaks(text)
        nth(k) == CHOOSE p \in B : Cardinality({q \in B : q < p}) = k
    IN [k \in 1..(Cardinality(B) - 1) |-> SubSeq(text, nth(k - 1) + 1, nth(k) - 1)]

InLines(ls, line) == \E k \in 1..Len(ls) : ls[k] = line

HasLine(text, line) == InLines(Lines(text), line)

--------------------------------------------------------------------------
(* Properties of validate_pdf, checked under SpecValidate *)

\* whether check k of the validator's list, taken on its own, rejects the file
CheckFails(k, file_path, f) ==
    CASE k = 1 -> ~f.exists
      [] k = 2 -> f.size_raises \/ f.size = 0
      [] k = 3 -> ~f.size_raises /\ f.size > max_size
      [] k = 4 -> IF f.magic_raises
                  THEN Lower(SubSeq(file_path, Len(file_path) - 3, Len(file_path))) # ".pdf"
                  ELSE f.mime # "application/pdf"
      [] k = 5 -> f.open_exc # "" \/ f.num_pages = 0
      [] k = 6 -> f.text_exc # ""

\* whether err is the message check k reports for this file
ReportsCheck(k, f, err) ==
    CASE k = 1 -> err = "File does not exist"
      [] k = 2 -> err = (IF f.size_raises THEN "Validation error: " \o f.size_msg
                         ELSE "File is empty")
      [] k = 3 -> /\ SubSeq(err, 1, 16) = "File too large: "
                  /\ EndsWith(err, "MB (max: 50MB)")
      [] k = 4 -> err = (IF f.magic_raises THEN "File does not have .pdf extension"
                         ELSE "Invalid file type: " \o f.mime \o ". Expected PDF.")
      [] k = 5 -> err = (IF f.open_exc = "" THEN "PDF has no pages"
                         ELSE IF f.open_exc = "PdfReadError"
                         THEN "Corrupted PDF: " \o f.open_msg
                         ELSE "PDF validation failed: " \o f.open_msg)
      [] k = 6 -> err = (IF f.text_exc = "PdfReadError"
                         THEN "Corrupted PDF: " \o f.text_msg
                         ELSE "PDF validation failed: " \o f.text_msg)

FailingChecks == {k \in 1..6 : CheckFails(k, pdf_file, fs)}

FirstFailing == CHOOSE k \in FailingChecks : \A j \in FailingChecks : k <= j

\* C7: validate_pdf reports the earliest failing check of the order existence,
\* size > 0, size <= maximum, content type (extension only when sniffing fails),
\* openable with a page, first page extractable; it is valid exactly when no
\* check fails, carries error iff it is not valid, and a valid outcome has
\* at least one page.
C7_FirstFailingCheckReported ==
    pc = "v_done" =>
        /\ validation_result.valid <=> FailingChecks = {}
        /\ ("error" \in DOMAIN validation_result) <=> ~validation_result.valid
        /\ FailingChecks # {} =>
              ReportsCheck(FirstFailing, fs, validation_result.error)
        /\ validation_result.valid => validation_result.num_pages > 0

\* a file that is both empty and of the wrong type is reported as empty
C7_Witness ==
    /\ pc = "v_done"
    /\ Cardinality(FailingChecks) >= 2
    /\ fs.size = 0 /\ fs.mime = "text/plain" /\ ~fs.magic_raises
    /\ validation_result.error = "File is empty"

--------------------------------------------------------------------------
(* Properties of generate_output_text, checked under SpecRender *)

Rendered == pc = "r_done"
NoError == "error" \notin DOMAIN results

\* C8 as stated: the metadata and structure headers are emitted for every
\* aggregate without error, the other four sections only when non-empty.
C8_Original ==
    Rendered /\ NoError =>
        LET ls == Lines(output_text) IN
        /\ InLines(ls, "DOCUMENT METADATA:")
        /\ InLines(ls, "DOCUMENT STRUCTURE:")
        /\ InLines(ls, "EXTRACTED IMAGES:") => results.images # << >>
        /\ InLines(ls, "EXTRACTED TABLES:") => results.tables # << >>
        /\ InLines(ls, "EXTRACTED TEXT CONTENT:") => results.text_content # ""
        /\ InLines(ls, "OCR EXTRACTED TEXT:") => results.ocr_text # ""

\* C8 amended: for every aggregate without error the metadata header is
\* emitted exactly when the metadata mapping is non-empty and the structure
\* header exactly when the structure mapping is non-empty; the images, tables,
\* text and OCR sections are emitted only when their collection or string is
\* non-empty.
C8_HeadersOnlyWhenNonEmpty ==
    Rendered /\ NoError =>
        LET ls == Lines(output_text) IN
        /\ InLines(ls, "DOCUMENT METADATA:") <=> results.metadata # << >>
        /\ InLines(ls, "DOCUMENT STRUCTURE:") <=> DOMAIN results.structure # {}
        /\ InLines(ls, "EXTRACTED IMAGES:") => results.images # << >>
        /\ InLines(ls, "EXTRACTED TABLES:") => results.tables # << >>
        /\ InLines(ls, "EXTRACTED TEXT CONTENT:") => results.text_content # ""
        /\ InLines(ls, "OCR EXTRACTED TEXT:") => results.ocr_text # ""

\* a report of an aggregate with no metadata and no structure, but with text
C8_Witness ==
    /\ Rendered /\ NoError
    /\ results.metadata = << >> /\ DOMAIN results.structure = {}
    /\ results.text_content # ""
    /\ ~HasLine(output_text, "DOCUMENT METADATA:")
    /\ ~HasLine(output_text, "DOCUMENT STRUCTURE:")
    /\ HasLine(output_text, "EXTRACTED TEXT CONTENT:")

\* C9: an aggregate without error has the OCR section iff ocr_text is
\* non-empty and differs from text_content; an aggregate with error renders as
\* the banner followed by the ERROR line and nothing else.
C9_OcrSectionIffDifferent ==
    Rendered =>
        IF NoError
        THEN HasLine(output_text, "OCR EXTRACTED TEXT:")
               <=> (results.ocr_text # "" /\ results.ocr_text # results.text_content)
        ELSE /\ Len(Lines(output_text)) = 6
             /\ Lines(output_text)[2] = "PDF PROCESSING RESULTS: " \o results.filename
             /\ Lines(output_text)[3] = "Processed at: " \o results.processed_at
             /\ Lines(output_text)[5] = ""
             /\ Lines(output_text)[6] = "ERROR: " \o results.error
             /\ \A k \in {1, 4} : Lines(output_text)[k] = Repeat("=", 80)

\* equal non-empty text_content and ocr_text: no OCR section
C9_Witness ==
    /\ Rendered /\ NoError
    /\ results.text_content = "Hello" /\ results.ocr_text = "Hello"
    /\ ~HasLine(output_text, "OCR EXTRACTED TEXT:")
    /\ HasLine(output_text, "OCR Length: 5 characters")

--------------------------------------------------------------------------
(* Properties of process_pdf and process_all_pdfs, checked under Spec *)

Extractors ==
    << "extract_text_and_structure", "extract_images", "extract_tables",
       "extract_metadata", "perform_ocr" >>

Stages == << "validate_pdf" >> \o Extractors

\* the callees process_pdf invoked for document d, in call order
CallsOf(d) ==
    LET mine == SelectSeq(calls, LAMBDA c : c[1] = d)
    IN [k \in 1..Len(mine) |-> mine[k][2]]

\* how many times process_pdf invoked callee for document d
Count(d, callee) == Cardinality({k \in 1..Len(calls) : calls[k] = <<d, callee>>})

\* process_pdf has returned for the current document and nothing has consumed it yet
Returned_process_pdf == pc = "generate"

\* process_pdf is running: its validation or one of its extractors is next
InProcessPdf ==
    pc \in {"validate", "extract_text", "extract_images", "extract_tables",
            "extract_metadata", "perform_ocr"}

ContentKeys == {"text_content", "structure", "images", "tables", "metadata", "ocr_text"}

\* C1 as stated: once validation passes, each of the five extractors is
\* invoked exactly once, also when an earlier extractor raised.
C1_Original ==
    Returned_process_pdf /\ validation_result.valid =>
        \A k \in 1..5 : Count(idx, Extractors[k]) = 1

\* C1 amended: once validation passes, no extractor is invoked twice; when no
\* extractor raises, each of the five is invoked exactly once, whatever the
\* others returned; when one raises, the extractors up to and including it
\* have been invoked once and the later ones not at all.
C1_ExtractorsOnceUntilFault ==
    /\ \A d \in 1..Len(pdf_files) : \A k \in 1..5 : Count(d, Extractors[k]) <= 1
    /\ Returned_process_pdf /\ validation_result.valid =>
          IF caught.raised
          THEN \E n \in 1..5 : \A k \in 1..5 :
                   Count(idx, Extractors[k]) = (IF k <= n THEN 1 ELSE 0)
          ELSE \A k \in 1..5 : Count(idx, Extractors[k]) = 1

\* all five ran although the first one returned nothing
C1_Witness ==
    /\ Returned_process_pdf /\ validation_result.valid /\ ~caught.raised
    /\ results.text_content = "" /\ results.images = << >>
    /\ \A k \in 1..5 : Count(idx, Extractors[k]) = 1

\* C2: when validation fails, process_pdf invokes no extractor and returns the
\* initial aggregate plus error = the validator's message: filename,
\* processed_at and error set, every content field at its empty default.
C2_InvalidRunsNoExtractor ==
    Returned_process_pdf /\ ~validation_result.valid =>
        /\ CallsOf(idx) = << "validate_pdf" >>
        /\ DOMAIN results = ContentKeys \cup {"filename", "processed_at", "error"}
        /\ results.error = validation_result.error
        /\ results.filename = Basename(pdf_files[idx])
        /\ results.processed_at # ""
        /\ results.text_content = "" /\ results.ocr_text = ""
        /\ results.images = << >> /\ results.tables = << >>
        /\ DOMAIN results.structure = {} /\ results.metadata = << >>

\* the second document of a run fails validation after the first one succeeded
C2_Witness ==
    /\ Returned_process_pdf /\ ~validation_result.valid
    /\ idx = 2 /\ processed_files[1].status = "success"
    /\ results.error = "PDF has no pages"

\* C3: a fault raised by an extractor is caught by process_pdf, which returns
\* an aggregate holding only filename, processed_at and
\* error = "Processing failed: " + description; no returned aggregate has both
\* an error and content.
C3_FaultGivesErrorOnly ==
    /\ [](Returned_process_pdf /\ caught.raised =>
             /\ DOMAIN results = {"filename", "processed_at", "error"}
             /\ results.error = "Processing failed: " \o caught.msg
             /\ results.filename = Basename(pdf_files[idx]))
    /\ [](Returned_process_pdf /\ "error" \in DOMAIN results =>
             \A key \in ContentKeys \cap DOMAIN results :
                 results[key] = InitialResults("", 0)[key])
    /\ [][caught'.raised /\ ~caught.raised => InProcessPdf /\ Returned_process_pdf']_vars

\* the OCR step raised after the four extractors before it had produced content
C3_Witness ==
    /\ Returned_process_pdf /\ caught.raised
    /\ Len(CallsOf(idx)) = 6
    /\ results.error = "Processing failed: ocr failed"

\* the run has ended, normally or by an exception leaving the handler
Ended == pc \in {"done", "aborted"}

OneEntryPerFile ==
    /\ Len(processed_files) = Len(pdf_files)
    /\ \A k \in 1..Len(pdf_files) : processed_files[k].input = Basename(pdf_files[k])

\* the status list holds the files before the current one, in discovery order
EntriesBeforeCurrent ==
    /\ Len(processed_files) = idx - 1
    /\ \A k \in 1..(idx - 1) : processed_files[k].input = Basename(pdf_files[k])

\* C4 as stated: with N >= 1 files no failure of a single document, a fault in
\* persisting its report included, aborts the batch, and at the end the status
\* list has one entry per discovered file, in discovery order.
C4_Original ==
    Ended /\ Len(pdf_files) >= 1 => pc = "done" /\ OneEntryPerFile

\* C4 amended: with N >= 1 files neither a validation error nor an extractor
\* fault aborts the batch: the run is cut short only by a fault raised outside
\* process_pdf while the report of a document is persisted, which the driver
\* does not catch, and then the status list holds one entry for each file
\* before that document; a run that completes holds exactly one entry per
\* discovered file, in discovery order.
C4_OnlyWriteFaultAborts ==
    /\ [](pc = "done" /\ Len(pdf_files) >= 1 => OneEntryPerFile)
    /\ [](pc = "aborted" => EntriesBeforeCurrent)
    /\ [][pc' = "aborted" => pc = "save"]_vars
    /\ [][InProcessPdf => pc' # "aborted" /\ processed_files' = processed_files]_vars

\* a completed run of two files whose first failed validation and whose second
\* hit an extractor fault
C4_Witness ==
    /\ pc = "done" /\ Len(pdf_files) = 2 /\ OneEntryPerFile
    /\ processed_files[1].status = "error" /\ processed_files[2].status = "error"
    /\ caught.raised
    /\ Cardinality({k \in 1..Len(calls) : calls[k][2] = "validate_pdf"}) = 2

\* C5: with no matching file the run returns the "no files found" condition
\* with no status entry; process_pdf, generate_output_text and the output write
\* are never invoked, and a summary with an empty file list is never returned.
C5_NoFilesCondition ==
    /\ pc # "glob" /\ Len(pdf_files) = 0 =>
          /\ pc = "done"
          /\ response = [error |-> "No PDF files found in static folder"]
          /\ processed_files = << >>
          /\ calls = << >>
          /\ output_text = ""
          /\ DOMAIN output = {}
    /\ "files" \in DOMAIN response => response.files # << >>

\* a folder that holds files, none of which glob matches
C5_Witness ==
    /\ pc = "done" /\ Len(pdf_files) = 0 /\ Len(static_folder) = 2
    /\ "error" \in DOMAIN response

\* the input name with its ".pdf" replaced by "_processed.txt"
ReplacedExtension(name) == SubSeq(name, 1, Len(name) - 4) \o "_processed.txt"

\* C6: every status entry, when recorded, has status error iff the aggregate
\* process_pdf returned for that file carries an error (validation failure or
\* caught fault) and success otherwise, and its output name is the input name
\* with the extension replaced by _processed.txt.
C6_StatusMatchesAggregate ==
    [][processed_files' # processed_files =>
         LET entry == processed_files'[Len(processed_files')] IN
         /\ processed_files' = Append(processed_files, entry)
         /\ entry.input = Basename(pdf_files[idx])
         /\ entry.status = "error" <=> "error" \in DOMAIN results
         /\ entry.status = "error" <=> (~validation_result.valid \/ caught.raised)
         /\ entry.status # "error" => entry.status = "success"
         /\ entry.output = ReplacedExtension(entry.input)]_vars

\* one run recorded a success for b.c.pdf and an error for another file
C6_Witness ==
    /\ Len(processed_files) = 2
    /\ processed_files[1] =
          [input |-> "b.c.pdf", output |-> "b.c_processed.txt", status |-> "success"]
    /\ processed_files[2].status = "error"

\* the position of process_pdf after n calls of the stage list
PcAfter(n) ==
    << "validate", "extract_text", "extract_images", "extract_tables",
       "extract_metadata", "perform_ocr" >>[n + 1]

\* C10: within one process_pdf call the stages run in the order validation,
\* text/structure, images, tables, metadata, OCR; an extractor is invoked only
\* after validation returned valid and every earlier extractor returned
\* without a fault; the validation of the next document starts only after the
\* report of the previous one has been rendered and written.
C10_StageOrder ==
    /\ \A d \in 1..Len(pdf_files) :
          /\ Len(CallsOf(d)) <= Len(Stages)
          /\ CallsOf(d) = SubSeq(Stages, 1, Len(CallsOf(d)))
          /\ CallsOf(d) # << >> =>
                /\ Len(processed_files) >= d - 1
                /\ \A j \in 1..(d - 1) :
                      /\ processed_files[j].output \in DOMAIN output
                      /\ \A k \in 1..Len(calls) : \A m \in 1..Len(calls) :
                            calls[k][1] = j /\ calls[m][1] = d => k < m
    /\ idx >= 1 /\ Len(CallsOf(idx)) >= 2 => validation_result.valid
    /\ \A n \in 1..5 :
          pc = PcAfter(n) =>
              /\ validation_result.valid /\ ~caught.raised
              /\ Len(CallsOf(idx)) = n
    /\ pc = "validate" => CallsOf(idx) = << >> /\ Len(processed_files) = idx - 1

\* the second document has reached its OCR stage after the first was written
C10_Witness ==
    /\ idx = 2 /\ pc = "perform_ocr"
    /\ Len(CallsOf(1)) = 6 /\ Len(CallsOf(2)) = 5
    /\ Len(processed_files) = 1 /\ DOMAIN output # {}

====
